---------------------------- MODULE Spec2Model ----------------------------
(***************************************************************************)
(* A model of the reddit-go client library: the polymorphic Thing decoder  *)
(* (types.go), the Edited and HeaderSize field codecs (types.go) and the   *)
(* paging Stream (requests.go).                                            *)
(*                                                                         *)
(* Byte strings are sequences of one-character strings, so that what a     *)
(* codec writes can be compared byte for byte with what it read.           *)
(***************************************************************************)
EXTENDS Integers, Sequences, FiniteSets, TLC

VARIABLES
    \* ---- Stream (requests.go) ----
    listing,    \* Stream.listing: the cached page
    index,      \* Stream.index
    err,        \* Stream.err
    lister,     \* the TopPosts descriptor behind Stream.lister
    gets,       \* transport calls issued so far (the doer's call counter)
    urls,       \* calls of lister.URL() so far
    tick,       \* flips on every call of Stream.Next
    ret,        \* what the last call of Stream.Next returned
    path,       \* the statement at which the last call of Stream.Next returned
    panicked,   \* a call of Stream.Next ended in a run-time panic
    returned,   \* the values of Thing() read after each Next() that returned true
    fetched,    \* the children of every page the transport delivered and Get decoded
    lastPage,   \* the last page the transport delivered and Get decoded
    count0,     \* the descriptor's Count when the Stream was created
    lastURL,    \* the URL produced by the last successful lister.URL()
    lastReq,    \* what the page source had said when lastURL was built
    lastResp,   \* what the transport answered to the last request sent
    obs,        \* the value returned by the last call of Thing() or Error()
    \* ---- Thing.UnmarshalJSON (types.go) ----
    tIn,        \* the bytes handed to Thing.UnmarshalJSON
    tLeaf,      \* the envelope nested innermost in tIn
    tDepth,     \* the number of Listings around tLeaf
    tPos,       \* the number of siblings before the nested child in each Listing
    tSibs,      \* the number of siblings after it
    tPrev,      \* the target Thing before the call
    tVal,       \* the target Thing
    tErr,       \* the error returned
    tPc,
    \* ---- Edited codec (types.go) ----
    eIn,        \* the bytes handed to Edited.UnmarshalJSON
    ePrev,      \* the target before the call
    eVal,       \* the target Edited
    eErr,       \* the error returned by UnmarshalJSON
    eOut,       \* the bytes written by Edited.MarshalJSON
    ePc,
    \* ---- HeaderSize codec (types.go) ----
    hIn,        \* the bytes handed to HeaderSize.UnmarshalJSON
    hVals,      \* the integers written in hIn when it is an array
    hSep,       \* what separates them in hIn
    hPrev,      \* the target before the call
    hVal,       \* the target HeaderSize
    hErr,       \* the error returned by UnmarshalJSON
    hOut,       \* the bytes written by HeaderSize.MarshalJSON
    hPc,
    \* ---- Config persistence (auth.go) ----
    cPath,      \* the file name handed to Save and LoadConfig
    cfg,        \* the Config the caller holds
    file,       \* the contents of the file
    cSaved,     \* the Config written by the last Save that succeeded
    cLoaded,    \* what the last LoadConfig returned: the *Config
    cErr,       \* the error the last Save or LoadConfig returned
    cPc,
    \* ---- Config.ScriptAuth (auth.go) ----
    aToken,     \* Config.AuthToken
    now,        \* the clock, in half seconds
    posts,      \* token requests issued so far
    aErr,       \* the error the last ScriptAuth returned
    aCall       \* the last call of ScriptAuth: its number, the token and the
                \* clock before it, the answer of the transport, requests sent

streamVars == <<listing, index, err, lister, gets, urls, tick, ret, path, panicked,
                returned, fetched, lastPage, count0, lastURL, lastReq, lastResp, obs>>
thingVars == <<tIn, tLeaf, tDepth, tPos, tSibs, tPrev, tVal, tErr, tPc>>
editedVars == <<eIn, ePrev, eVal, eErr, eOut, ePc>>
headerVars == <<hIn, hVals, hSep, hPrev, hVal, hErr, hOut, hPc>>
configVars == <<cPath, cfg, file, cSaved, cLoaded, cErr, cPc>>
authVars == <<aToken, now, posts, aErr, aCall>>
vars == <<streamVars, thingVars, editedVars, headerVars, configVars, authVars>>

-----------------------------------------------------------------------------
(* Bounds of the model. *)

\* The largest number of children in a page the transport delivers.
MaxPage == 5
\* The number of transport calls after which Next is no longer called to fetch.
MaxGets == 3
\* The longest digit string handed to the codecs.
MaxDigits == 2
\* The longest array handed to HeaderSize.UnmarshalJSON.
MaxArr == 3
\* The deepest nesting of Listings handed to Thing.UnmarshalJSON.
MaxDepth == 2
\* The largest number of well-formed siblings around a nested child.
MaxSiblings == 1
\* The calls of ScriptAuth in a run.
MaxCalls == 2
\* The last reading of the clock, in half seconds.
MaxClock == 6

-----------------------------------------------------------------------------
(* Bytes and numbers. *)

DigitChars == <<"0", "1", "2", "3", "4", "5", "6", "7", "8", "9">>

IsDigit(c) == \E i \in 1..10 : DigitChars[i] = c

DigitVal(c) == (CHOOSE i \in 1..10 : DigitChars[i] = c) - 1

AllDigits(s) == \A i \in 1..Len(s) : IsDigit(s[i])

RECURSIVE DigitsToNat(_)
DigitsToNat(s) ==
    IF s = <<>> THEN 0
    ELSE 10 * DigitsToNat(SubSeq(s, 1, Len(s) - 1)) + DigitVal(s[Len(s)])

RECURSIVE NatToDigits(_)
NatToDigits(n) ==
    IF n < 10 THEN <<DigitChars[n + 1]>>
    ELSE NatToDigits(n \div 10) \o <<DigitChars[(n % 10) + 1]>>

\* The verb %d applied to an int.
FormatInt(n) == IF n < 0 THEN <<"-">> \o NatToDigits(-n) ELSE NatToDigits(n)

FalseBytes == <<"f", "a", "l", "s", "e">>
TrueBytes == <<"t", "r", "u", "e">>
NullBytes == <<"n", "u", "l", "l">>
QuotedBytes == <<"\"", "1", "\"">>
EmptyArrayBytes == <<"[", "]">>

-----------------------------------------------------------------------------
(* URLs and error values.  A URL is the path's subreddit and the query: the  *)
(* keys present and their values.  An error value is its message, the kind  *)
(* it names (fmt's %s of j.Kind) and the URL it names; NoError is Go's nil. *)

NoURL == [sub |-> "", keys |-> {}, after |-> "", before |-> "", count |-> 0,
          limit |-> 0, show |-> "", t |-> ""]

Error(msg, kind, url) == [msg |-> msg, kind |-> kind, url |-> url]

NoError == Error("nil", "", NoURL)

-----------------------------------------------------------------------------
(* strconv.ParseFloat and fmt.Sprintf, as far as the codecs use them.  The  *)
(* byte strings of the model hold a sign and decimal digits only (no        *)
(* fraction, no exponent), so a float64 is modelled by an integer.          *)

\* strconv.ParseFloat(s, 64): [ok, val].
ParseFloat(s) ==
    LET signed == s # <<>> /\ s[1] \in {"-", "+"}
        digits == IF signed THEN SubSeq(s, 2, Len(s)) ELSE s
    IN  IF digits # <<>> /\ AllDigits(digits)
        THEN [ok |-> TRUE,
              val |-> IF signed /\ s[1] = "-" THEN 0 - DigitsToNat(digits)
                      ELSE DigitsToNat(digits)]
        ELSE [ok |-> FALSE, val |-> 0]

\* The verb %v applied to a float64 that holds an integer below 10^21: %g with
\* the shortest precision writes the digits with no fraction, no exponent.
FormatFloatV(x) == FormatInt(x)

\* fmt.Sprintf("%d", x) with x a float64: %d is no verb of a float64, and fmt writes
\* %!d(float64=<x as %v>) in place of the number.
SprintfDFloat(x) ==
    <<"%", "!", "d", "(", "f", "l", "o", "a", "t", "6", "4", "=">>
        \o FormatFloatV(x) \o <<")">>

-----------------------------------------------------------------------------
(* Edited (types.go). *)

ZeroEdited == [Unix |-> 0, Edited |-> FALSE]

\* Edited.UnmarshalJSON resetting the target before it parses.
EditedUnmarshalJSONResets(e, b) ==
    IF b = FalseBytes
    THEN [err |-> NoError, e |-> [Unix |-> 0, Edited |-> FALSE]]
    ELSE LET p == ParseFloat(b)
         IN  IF ~p.ok
             THEN [err |-> Error("strconv.ParseFloat: invalid syntax", "", NoURL),
                   e |-> ZeroEdited]
             ELSE [err |-> NoError, e |-> [Unix |-> p.val, Edited |-> TRUE]]

\* Edited.UnmarshalJSON with target e and input b: [err, e].
EditedUnmarshalJSON(e, b) ==
    IF b = FalseBytes
    THEN [err |-> NoError, e |-> [Unix |-> 0, Edited |-> FALSE]]
    ELSE LET p == ParseFloat(b)
         IN  IF ~p.ok
             THEN [err |-> Error("strconv.ParseFloat: invalid syntax", "", NoURL), e |-> e]
             ELSE [err |-> NoError, e |-> [Unix |-> p.val, Edited |-> TRUE]]

\* Edited.MarshalJSON: the bytes written (the error is always nil).
EditedMarshalJSON(e) ==
    IF e.Edited THEN SprintfDFloat(e.Unix) ELSE FalseBytes

-----------------------------------------------------------------------------
(* encoding/json decoding a byte string into a []int, as                    *)
(* HeaderSize.UnmarshalJSON calls it.                                       *)

\* The first position at or after i that holds no white space.
RECURSIVE SkipWS(_, _)
SkipWS(b, i) == IF i <= Len(b) /\ b[i] = " " THEN SkipWS(b, i + 1) ELSE i

\* The first position at or after i that holds no digit.
RECURSIVE SkipDigits(_, _)
SkipDigits(b, i) == IF i <= Len(b) /\ IsDigit(b[i]) THEN SkipDigits(b, i + 1) ELSE i

\* A JSON integer at position i: [ok, val, next].  A number starts with an
\* optional minus and has no leading zero.
JSONInt(b, i) ==
    LET neg == i <= Len(b) /\ b[i] = "-"
        d == IF neg THEN i + 1 ELSE i
        e == SkipDigits(b, d)
    IN  IF e = d \/ (e - d > 1 /\ b[d] = "0")
        THEN [ok |-> FALSE, val |-> 0, next |-> i]
        ELSE [ok |-> TRUE,
              val |-> IF neg THEN 0 - DigitsToNat(SubSeq(b, d, e - 1))
                      ELSE DigitsToNat(SubSeq(b, d, e - 1)),
              next |-> e]

JSONFail == [ok |-> FALSE, v |-> <<>>]

\* The elements of an array from position i on, acc holding those read so far.
RECURSIVE JSONIntElems(_, _, _)
JSONIntElems(b, i, acc) ==
    LET n == JSONInt(b, i)
        j == SkipWS(b, n.next)
    IN  IF ~n.ok \/ j > Len(b) THEN JSONFail
        ELSE IF b[j] = "," THEN JSONIntElems(b, SkipWS(b, j + 1), Append(acc, n.val))
        ELSE IF b[j] = "]" /\ SkipWS(b, j + 1) > Len(b)
             THEN [ok |-> TRUE, v |-> Append(acc, n.val)]
        ELSE JSONFail

\* json.Unmarshal(b, &v) with v a []int: [ok, v].  null leaves v with no elements.
JSONUnmarshalInts(b) ==
    LET i == SkipWS(b, 1)
    IN  IF i + 3 <= Len(b) /\ SubSeq(b, i, i + 3) = NullBytes
             /\ SkipWS(b, i + 4) > Len(b)
        THEN [ok |-> TRUE, v |-> <<>>]
        ELSE IF i > Len(b) \/ b[i] # "[" THEN JSONFail
        ELSE LET j == SkipWS(b, i + 1)
             IN  IF j <= Len(b) /\ b[j] = "]"
                 THEN IF SkipWS(b, j + 1) > Len(b)
                      THEN [ok |-> TRUE, v |-> <<>>]
                      ELSE JSONFail
                 ELSE JSONIntElems(b, j, <<>>)

-----------------------------------------------------------------------------
(* HeaderSize (types.go).  A *HeaderSize is a record; isNil marks the nil   *)
(* pointer.                                                                 *)

ZeroHeaderSize == [isNil |-> FALSE, Width |-> 0, Height |-> 0]
NilHeaderSize == [isNil |-> TRUE, Width |-> 0, Height |-> 0]

\* HeaderSize.UnmarshalJSON with target h (not nil) and input b: [err, h].
HeaderSizeUnmarshalJSON(h, b) ==
    LET p == JSONUnmarshalInts(b)
    IN  IF ~p.ok THEN [err |-> Error("json: cannot unmarshal into []int", "", NoURL), h |-> h]
        ELSE IF Len(p.v) = 0 THEN [err |-> NoError, h |-> h]
        ELSE IF Len(p.v) # 2 THEN [err |-> Error("expected 2 element array", "", NoURL), h |-> h]
        ELSE [err |-> NoError,
              h |-> [isNil |-> FALSE, Width |-> p.v[1], Height |-> p.v[2]]]

\* HeaderSize.MarshalJSON writing the height first.
HeaderSizeMarshalJSONSwapped(h) ==
    IF h.isNil THEN NullBytes
    ELSE <<"[">> \o FormatInt(h.Height) \o <<",", " ">> \o FormatInt(h.Width) \o <<"]">>

\* HeaderSize.MarshalJSON: the bytes written (the error is always nil).
HeaderSizeMarshalJSON(h) ==
    IF h.isNil THEN NullBytes
    ELSE <<"[">> \o FormatInt(h.Width) \o <<",", " ">> \o FormatInt(h.Height) \o <<"]">>


-----------------------------------------------------------------------------
(* Thing.UnmarshalJSON (types.go).                                          *)
(*                                                                          *)
(* A JSON document is [json |-> "invalid"] (no JSON object) or an envelope  *)
(* [json |-> "object", id, name, kind, data]; data holds the keys the       *)
(* payload types read: typed (every plainly typed key holds a value of its  *)
(* Go type), author, edited and header_size (bytes; <<>> when the key is    *)
(* absent), before, after, children and replies (documents).                *)

NilData == [type |-> "nil"]

\* Thing{}
ZeroThing == [ID |-> "", Name |-> "", Kind |-> "", Data |-> NilData]

\* KindType with a default case that selects a payload.
KindTypeDefault(kind) ==
    CASE kind = "Listing" -> "Listing"
      [] kind = "t1" -> "Comment"
      [] kind = "t2" -> "Account"
      [] kind = "t3" -> "Link"
      [] kind = "t5" -> "SubReddit"
      [] OTHER -> "Message"

\* The payload a kind selects: the switch of Thing.UnmarshalJSON.
KindType(kind) ==
    CASE kind = "Listing" -> "Listing"
      [] kind = "t1" -> "Comment"
      [] kind = "t2" -> "Account"
      [] kind = "t3" -> "Link"
      [] kind = "t4" -> "Message"
      [] kind = "t5" -> "SubReddit"
      [] OTHER -> "unsupported"

\* The edited key of a payload decoded into a fresh struct: [err, e].
EditedField(d) ==
    IF d.edited = <<>> THEN [err |-> NoError, e |-> ZeroEdited]
    ELSE EditedUnmarshalJSON(ZeroEdited, d.edited)

\* The header_size key of a SubReddit decoded into a fresh struct: [err, h].
\* encoding/json leaves the pointer nil for null and allocates it otherwise.
HeaderSizeField(d) ==
    IF d.header_size = <<>> \/ d.header_size = NullBytes
    THEN [err |-> NoError, h |-> NilHeaderSize]
    ELSE HeaderSizeUnmarshalJSON(ZeroHeaderSize, d.header_size)

RECURSIVE ThingUnmarshalJSON(_, _)
RECURSIVE UnmarshalThings(_)
RECURSIVE UnmarshalPayload(_, _)

\* A []Thing from its first element and the rest, each decoded: [err, v].
ConsThings(first, rest) ==
    IF first.err # NoError THEN [err |-> first.err, v |-> <<>>]
    ELSE IF rest.err # NoError THEN [err |-> rest.err, v |-> <<>>]
    ELSE [err |-> NoError, v |-> <<first.t>> \o rest.v]

\* json.Unmarshal of an array into a []Thing: [err, v].
UnmarshalThings(raws) ==
    IF raws = <<>> THEN [err |-> NoError, v |-> <<>>]
    ELSE ConsThings(ThingUnmarshalJSON(ZeroThing, Head(raws)),
                    UnmarshalThings(Tail(raws)))

\* A Listing from data d, c being its children decoded: [err, val].
ListingPayload(d, c) ==
    IF c.err # NoError THEN [err |-> c.err, val |-> NilData]
    ELSE [err |-> NoError,
          val |-> [type |-> "Listing", Before |-> d.before, After |-> d.after,
                   Children |-> c.v]]

\* A Comment from data d, e being its edited key and r its replies decoded.
CommentPayload(d, e, r) ==
    IF e.err # NoError THEN [err |-> e.err, val |-> NilData]
    ELSE IF r.err # NoError THEN [err |-> r.err, val |-> NilData]
    ELSE [err |-> NoError,
          val |-> [type |-> "Comment", Author |-> d.author, Edited |-> e.e,
                   Replies |-> r.v]]

\* A Link from data d, e being its edited key decoded.
LinkPayload(d, e) ==
    IF e.err # NoError THEN [err |-> e.err, val |-> NilData]
    ELSE [err |-> NoError,
          val |-> [type |-> "Link", Author |-> d.author, Edited |-> e.e]]

\* A SubReddit, h being its header_size key decoded.
SubRedditPayload(h) ==
    IF h.err # NoError THEN [err |-> h.err, val |-> NilData]
    ELSE [err |-> NoError, val |-> [type |-> "SubReddit", HeaderSize |-> h.h]]

\* json.Unmarshal(j.Data, val) with val a fresh payload of type ty: [err, val].
UnmarshalPayload(ty, d) ==
    IF ~d.typed THEN [err |-> Error("json: cannot unmarshal", "", NoURL), val |-> NilData]
    ELSE CASE ty = "Listing" -> ListingPayload(d, UnmarshalThings(d.children))
           [] ty = "Comment" ->
                CommentPayload(d, EditedField(d), UnmarshalThings(d.replies))
           [] ty = "Link" -> LinkPayload(d, EditedField(d))
           [] ty = "SubReddit" -> SubRedditPayload(HeaderSizeField(d))
           [] OTHER -> [err |-> NoError, val |-> [type |-> ty]]

\* SetThing assigning the envelope's id, name and kind before it looks at
\* the error of the payload.
SetThingEarly(t, b, p) ==
    IF p.err # NoError
    THEN [err |-> p.err, t |-> [t EXCEPT !.ID = b.id, !.Name = b.name, !.Kind = b.kind]]
    ELSE [err |-> NoError,
          t |-> [ID |-> b.id, Name |-> b.name, Kind |-> b.kind, Data |-> p.val]]

\* The last statements of Thing.UnmarshalJSON, p being the payload decoded.
SetThing(t, b, p) ==
    IF p.err # NoError THEN [err |-> p.err, t |-> t]
    ELSE [err |-> NoError,
          t |-> [ID |-> b.id, Name |-> b.name, Kind |-> b.kind, Data |-> p.val]]

\* Thing.UnmarshalJSON with target t and input b: [err, t].
ThingUnmarshalJSON(t, b) ==
    IF b.json # "object"
    THEN [err |-> Error("json: cannot unmarshal into thingJSON", "", NoURL), t |-> t]
    ELSE IF KindType(b.kind) = "unsupported"
    THEN [err |-> Error("unsupported kind", b.kind, NoURL), t |-> t]
    ELSE SetThing(t, b, UnmarshalPayload(KindType(b.kind), b.data))

-----------------------------------------------------------------------------
(* Config persistence (auth.go).  A Go string is a sequence of units: an     *)
(* ASCII letter, a quote, a "<", "xFF" for a byte that is no valid UTF-8, and *)
(* "uFFFD" for the replacement rune.                                          *)

\* Credentials{}, AuthToken{}, Config{}
ZeroCredentials ==
    [Username |-> <<>>, Password |-> <<>>, ClientID |-> <<>>, ClientSecret |-> <<>>,
     UserAgent |-> <<>>]
ZeroAuthToken == [Expires |-> 0, Token |-> <<>>, Type |-> <<>>]
ZeroConfig == [Credentials |-> ZeroCredentials, AuthToken |-> ZeroAuthToken]

\* A *Config: nil, or a pointer to c.
NilConfig == [isNil |-> TRUE, c |-> ZeroConfig]
ConfigPtr(c) == [isNil |-> FALSE, c |-> c]

\* encoding/json writing one unit of a string: a quote is escaped, "<" is
\* written as the escape u003c and an invalid byte as the escape ufffd.
EscapeUnit(u) ==
    CASE u = "\"" -> <<"\\", "\"">>
      [] u = "<" -> <<"\\", "u", "0", "0", "3", "c">>
      [] u = "xFF" -> <<"\\", "u", "f", "f", "f", "d">>
      [] u = "uFFFD" -> <<"uFFFD">>
      [] OTHER -> <<u>>

RECURSIVE EscapeUnits(_)
EscapeUnits(str) ==
    IF str = <<>> THEN <<>> ELSE EscapeUnit(Head(str)) \o EscapeUnits(Tail(str))

\* json.Marshal of a string with nothing escaped.
MarshalStringRaw(str) == <<"\"">> \o str \o <<"\"">>

\* json.Marshal of a string.
MarshalString(str) == <<"\"">> \o EscapeUnits(str) \o <<"\"">>

\* The unit a \uXXXX escape stands for.
UnicodeEscape(h) ==
    CASE h = <<"0", "0", "3", "c">> -> "<"
      [] h = <<"f", "f", "f", "d">> -> "uFFFD"
      [] OTHER -> "?"

\* encoding/json reading the inside of a string literal from position i:
\* [ok, v].
RECURSIVE UnquoteFrom(_, _, _)
UnquoteFrom(b, i, acc) ==
    IF i > Len(b) THEN [ok |-> TRUE, v |-> acc]
    ELSE IF b[i] = "\""
    THEN [ok |-> FALSE, v |-> <<>>]
    ELSE IF b[i] = "\\"
    THEN IF i + 1 <= Len(b) /\ b[i + 1] = "\""
         THEN UnquoteFrom(b, i + 2, Append(acc, "\""))
         ELSE IF i + 5 <= Len(b) /\ b[i + 1] = "u"
         THEN UnquoteFrom(b, i + 6, Append(acc, UnicodeEscape(SubSeq(b, i + 2, i + 5))))
         ELSE [ok |-> FALSE, v |-> <<>>]
    ELSE IF b[i] = "xFF"
    THEN UnquoteFrom(b, i + 1, Append(acc, "uFFFD"))
    ELSE UnquoteFrom(b, i + 1, Append(acc, b[i]))

\* json.Unmarshal of the value of a key into a string field: [ok, v]. A key
\* that is absent leaves the field empty.
UnmarshalString(b) ==
    IF b = <<>> THEN [ok |-> TRUE, v |-> <<>>]
    ELSE IF Len(b) < 2 \/ b[1] # "\"" \/ b[Len(b)] # "\""
    THEN [ok |-> FALSE, v |-> <<>>]
    ELSE UnquoteFrom(SubSeq(b, 2, Len(b) - 1), 1, <<>>)

\* json.Unmarshal of the value of a key into an int64 field: [ok, v].
UnmarshalInt64(b) ==
    IF b = <<>> THEN [ok |-> TRUE, v |-> 0]
    ELSE IF b[1] = "-"
    THEN IF Len(b) > 1 /\ AllDigits(Tail(b))
         THEN [ok |-> TRUE, v |-> 0 - DigitsToNat(Tail(b))]
         ELSE [ok |-> FALSE, v |-> 0]
    ELSE IF AllDigits(b) THEN [ok |-> TRUE, v |-> DigitsToNat(b)]
    ELSE [ok |-> FALSE, v |-> 0]

\* No file of that name.
NoFile ==
    [exists |-> FALSE, json |-> "none",
     credentials |-> [username |-> <<>>, password |-> <<>>, clientID |-> <<>>,
                      client_secret |-> <<>>, user_agent |-> <<>>],
     token |-> [expires |-> <<>>, token |-> <<>>, type |-> <<>>]]

\* A file that holds no JSON.
GarbageFile == [NoFile EXCEPT !.exists = TRUE, !.json = "invalid"]

\* json.Marshal(c): the document, each key named by the tag of its field.
MarshalConfig(c) ==
    [exists |-> TRUE, json |-> "object",
     credentials |-> [username |-> MarshalString(c.Credentials.Username),
                      password |-> MarshalString(c.Credentials.Password),
                      clientID |-> MarshalString(c.Credentials.ClientID),
                      client_secret |-> MarshalString(c.Credentials.ClientSecret),
                      user_agent |-> MarshalString(c.Credentials.UserAgent)],
     token |-> [expires |-> FormatInt(c.AuthToken.Expires),
                token |-> MarshalString(c.AuthToken.Token),
                type |-> MarshalString(c.AuthToken.Type)]]

\* The fields of a Config, each decoded: the Config when all of them decoded.
ConfigOf(u, p, i, s, a, e, t, ty) ==
    [ok |-> u.ok /\ p.ok /\ i.ok /\ s.ok /\ a.ok /\ e.ok /\ t.ok /\ ty.ok,
     c |-> [Credentials |-> [Username |-> u.v, Password |-> p.v, ClientID |-> i.v,
                             ClientSecret |-> s.v, UserAgent |-> a.v],
            AuthToken |-> [Expires |-> e.v, Token |-> t.v, Type |-> ty.v]]]

\* json.Unmarshal(data, &ret) with ret a Config: [ok, c].
UnmarshalConfig(f) ==
    IF f.json # "object" THEN [ok |-> FALSE, c |-> ZeroConfig]
    ELSE ConfigOf(UnmarshalString(f.credentials.username),
                  UnmarshalString(f.credentials.password),
                  UnmarshalString(f.credentials.clientID),
                  UnmarshalString(f.credentials.client_secret),
                  UnmarshalString(f.credentials.user_agent),
                  UnmarshalInt64(f.token.expires),
                  UnmarshalString(f.token.token),
                  UnmarshalString(f.token.type))

\* homedir.Expand(file) fails: "~user/..." names the home of another user.
ExpandFails(name) == name = "~other/creds"

\* notZero(key, isNonZero)
notZero(key, isNonZero) == IF isNonZero THEN {} ELSE {key}

\* The messages LoadConfig collects for the credentials c.
MissingCredentials(c) ==
    notZero("username", c.Username # <<>>)
        \cup notZero("password", c.Password # <<>>)
        \cup notZero("client id", c.ClientID # <<>>)
        \cup notZero("client secret", c.ClientSecret # <<>>)
        \cup notZero("user agent", c.UserAgent # <<>>)

\* The end of LoadConfig, r being the contents unmarshalled: [err, ptr].
Loaded(r) ==
    IF ~r.ok
    THEN [err |-> Error("failed to unmarshal contents", "", NoURL), ptr |-> NilConfig]
    ELSE IF MissingCredentials(r.c.Credentials) # {}
    THEN [err |-> Error("not present", "", NoURL), ptr |-> NilConfig]
    ELSE [err |-> NoError, ptr |-> ConfigPtr(r.c)]

\* LoadConfig(name) with the file holding f: [err, ptr].
LoadConfig(name, f) ==
    IF ExpandFails(name)
    THEN [err |-> Error("cannot expand user-specific home dir", "", NoURL),
          ptr |-> NilConfig]
    ELSE IF ~f.exists
    THEN [err |-> Error("failed to read contents", "", NoURL), ptr |-> NilConfig]
    ELSE Loaded(UnmarshalConfig(f))

\* Config.Save(name) with the file holding f, the write failing or not:
\* [err, file].
Save(c, name, f, writeFails) ==
    IF ExpandFails(name)
    THEN [err |-> Error("cannot expand user-specific home dir", "", NoURL), file |-> f]
    ELSE IF writeFails
    THEN [err |-> Error("failed to save auth token", "", NoURL), file |-> f]
    ELSE [err |-> NoError, file |-> MarshalConfig(c)]

-----------------------------------------------------------------------------
(* The transport and the page source.                                       *)

\* Listing{}
ZeroListing == [type |-> "Listing", Before |-> "", After |-> "", Children |-> <<>>]

\* The continuation tokens a page may carry; "" says there is no further page.
Tokens == {"", "a", "b"}

RawData == [typed |-> TRUE, author |-> 0, edited |-> <<>>, header_size |-> <<>>,
            before |-> "", after |-> "", children |-> <<>>, replies |-> <<>>]

RawThing(kind, data) ==
    [json |-> "object", id |-> "", name |-> "", kind |-> kind, data |-> data]

\* The envelope of the link whose author is number n.
RawLink(n) == RawThing("t3", [RawData EXCEPT !.author = n])

\* The body of a page: a Listing of the links first .. first+size-1.
PageBody(first, size, after) ==
    RawThing("Listing", [RawData EXCEPT !.after = after,
                            !.children = [i \in 1..size |-> RawLink(first + i - 1)]])

InvalidJSON == [json |-> "invalid"]

\* What the transport may answer to the next request when n links have been
\* delivered so far: a failure of the round trip, a failure while reading the
\* body, or a status with a body, the body being a page of new links, a page
\* with a child of an unknown kind, a link where a Listing is expected, or no
\* JSON at all.
Bodies(n) ==
    {PageBody(n + 1, size, after) : size \in 0..MaxPage, after \in Tokens}
        \cup {RawThing("Listing", [RawData EXCEPT
                  !.children = <<RawLink(n + 1), RawThing("t9", RawData)>>]),
              RawLink(n + 1),
              InvalidJSON}

Responses(n) ==
    {[do |-> "error", status |-> 0, body |-> InvalidJSON],
     [do |-> "read error", status |-> 200, body |-> InvalidJSON],
     [do |-> "ok", status |-> 500, body |-> InvalidJSON]}
        \cup {[do |-> "ok", status |-> 200, body |-> b] : b \in Bodies(n)}

-----------------------------------------------------------------------------
(* The descriptor (requests.go).                                            *)

\* The keys go-querystring writes for a TopPosts: every key is omitempty.
QueryKeys(l) ==
    {k \in {"after", "before", "count", "limit", "show", "t"} :
        CASE k = "after" -> l.After # ""
          [] k = "before" -> l.Before # ""
          [] k = "count" -> l.Count # 0
          [] k = "limit" -> l.Limit # 0
          [] k = "show" -> l.Show # ""
          [] k = "t" -> l.Duration # ""}

\* TopPosts.URL: the URL (the error is always nil).
TopPostsURL(l) ==
    [sub |-> l.SubReddit, keys |-> QueryKeys(l), after |-> l.After,
     before |-> l.Before, count |-> l.Count, limit |-> l.Limit, show |-> l.Show,
     t |-> l.Duration]

\* The subreddit names of the model: the second makes a path with the escape
\* "%/t", which net/url refuses.
SubReddits == {"programming", "100%"}

\* http.NewRequest(http.MethodGet, url, nil) returns an error: url does not parse.
NewRequestFails(url) == url.sub = "100%"

-----------------------------------------------------------------------------
(* Config.Get and httpRequest (requests.go, auth.go).                       *)

\* httpRequest leaving the URL out of the error for a bad status.
httpRequestNoURL(url, resp) ==
    IF resp.do = "error"
    THEN [err |-> Error("http request failed", "", url), data |-> InvalidJSON]
    ELSE IF resp.do = "read error"
    THEN [err |-> Error("failed to read http response", "", url), data |-> InvalidJSON]
    ELSE IF resp.status # 200
    THEN [err |-> Error("http error", "", NoURL), data |-> InvalidJSON]
    ELSE [err |-> NoError, data |-> resp.body]

\* httpRequest: [err, data].
httpRequest(url, resp) ==
    IF resp.do = "error"
    THEN [err |-> Error("http request failed", "", url), data |-> InvalidJSON]
    ELSE IF resp.do = "read error"
    THEN [err |-> Error("failed to read http response", "", url), data |-> InvalidJSON]
    ELSE IF resp.status # 200
    THEN [err |-> Error("http error", "", url), data |-> InvalidJSON]
    ELSE [err |-> NoError, data |-> resp.body]

\* The end of Config.Get, u being the body unmarshalled into t.
Parsed(url, u) ==
    IF u.err # NoError
    THEN [err |-> Error("failed to parse response", u.err.kind, url), t |-> u.t,
          sent |-> 1]
    ELSE [err |-> NoError, t |-> u.t, sent |-> 1]

\* Config.Get after the request was made, r being what httpRequest returned.
Received(url, r) ==
    IF r.err # NoError THEN [err |-> r.err, t |-> ZeroThing, sent |-> 1]
    ELSE Parsed(url, ThingUnmarshalJSON(ZeroThing, r.data))

\* Get sending its request again when the first answer is an error.
GetRetry(url, resp) ==
    IF NewRequestFails(url)
    THEN [err |-> Error("failed to create request", "", url), t |-> ZeroThing, sent |-> 0]
    ELSE [Received(url, httpRequest(url, resp)) EXCEPT
            !.sent = IF httpRequest(url, resp).err # NoError THEN 2 ELSE 1]

\* Config.Get(client, url, &t) with t a fresh Thing: [err, t, sent], sent being
\* the number of transport calls it made.
Get(url, resp) ==
    IF NewRequestFails(url)
    THEN [err |-> Error("failed to create request", "", url), t |-> ZeroThing, sent |-> 0]
    ELSE Received(url, httpRequest(url, resp))

-----------------------------------------------------------------------------
(* Config.ScriptAuth and requestToken (auth.go).  The clock counts half     *)
(* seconds, so that a time between two seconds exists; Expires counts        *)
(* seconds.                                                                  *)

\* RedditAuthURL
AuthURL == [NoURL EXCEPT !.sub = "api/v1/access_token"]

\* t.Unix(): the seconds of the time t.
Unix(t) == t \div 2

\* The test of ScriptAuth read with "not before" in place of "after".
TokenValidNotBefore(tok, t) == tok.Token # <<>> /\ tok.Expires * 2 >= t

\* c.AuthToken.Token != "" && time.Unix(c.AuthToken.Expires, 0).After(clock.Now())
TokenValid(tok, t) == tok.Token # <<>> /\ tok.Expires * 2 > t

\* The body of a token response: the keys access_token, expires_in and
\* token_type, each of the type its field has or not.
TokenBody(token, expiresIn, type, typed) ==
    [json |-> "object", typed |-> typed, access_token |-> token,
     expires_in |-> expiresIn, token_type |-> type]

\* A body that is no JSON.
NoTokenBody == [TokenBody(<<>>, 0, <<>>, FALSE) EXCEPT !.json = "invalid"]

\* The messages requestToken collects for the response d.
MissingToken(d) ==
    notZero("token", d.access_token # <<>>)
        \cup notZero("expiration", d.expires_in # 0)
        \cup notZero("token type", d.token_type # <<>>)

\* The end of requestToken, r being what httpRequest returned and authTime
\* the reading of the clock before the request: [err, token].
TokenOf(r, authTime) ==
    IF r.err # NoError THEN [err |-> r.err, token |-> ZeroAuthToken]
    ELSE IF r.data.json # "object" \/ ~r.data.typed
    THEN [err |-> Error("invalid token response", "", AuthURL), token |-> ZeroAuthToken]
    ELSE IF MissingToken(r.data) # {}
    THEN [err |-> Error("incomplete token response", "", AuthURL),
          token |-> ZeroAuthToken]
    ELSE [err |-> NoError,
          token |-> [Expires |-> Unix(authTime) + r.data.expires_in,
                     Token |-> r.data.access_token, Type |-> r.data.token_type]]

\* requestToken(c.Credentials, client) at time t, the transport answering
\* resp: [err, token].
requestToken(t, resp) == TokenOf(httpRequest(AuthURL, resp), t)

\* The end of ScriptAuth, r being what requestToken returned: [err, token, sent].
Authenticated(tok, r) ==
    IF r.err # NoError THEN [err |-> r.err, token |-> tok, sent |-> 1]
    ELSE [err |-> NoError, token |-> r.token, sent |-> 1]

\* Config.ScriptAuth with c.AuthToken = tok at time t: [err, token, sent].
ScriptAuth(tok, t, resp) ==
    IF TokenValid(tok, t) THEN [err |-> NoError, token |-> tok, sent |-> 0]
    ELSE Authenticated(tok, requestToken(t, resp))

-----------------------------------------------------------------------------
(* Stream (requests.go).                                                    *)

\* Stream.indexValid with index i and cached page l.
indexValid(i, l) == i >= 0 /\ i < Len(l.Children)

\* Advance stepping over an entity.
AdvanceSkip(i, l) == IF indexValid(i, l) THEN i + 2 ELSE i

\* The index after the first statement of Next: if s.indexValid() { s.index++ }.
Advance(i, l) == IF indexValid(i, l) THEN i + 1 ELSE i

\* NoMorePages ending the iteration whenever a page was fetched before.
NoMorePagesEager(i, l) == i # -1

\* NoMorePages not looking at the index.
NoMorePagesFresh(i, l) == l.After = ""

\* NoMorePages never ending the iteration.
NoMorePagesNever(i, l) == FALSE

\* The test that ends the iteration with no fetch:
\* s.listing.After == "" && s.index != -1.
NoMorePages(i, l) == l.After = "" /\ i # -1

\* SetAfter writing the after token into Before as well.
SetAfterBoth(d, l) == [d EXCEPT !.After = l.After, !.Before = l.After]

\* s.lister.List().After = s.listing.After
SetAfter(d, l) == [d EXCEPT !.After = l.After]

\* AddCount overwriting the count with the size of the page.
AddCountPage(d, l) == [d EXCEPT !.Count = Len(l.Children)]

\* s.lister.List().Count += len(s.listing.Children)
AddCount(d, l) == [d EXCEPT !.Count = d.Count + Len(l.Children)]

\* Stream.Thing reading the cached page whatever the error.
StreamThingStale(l, i, e) ==
    IF indexValid(i, l) THEN l.Children[i + 1] ELSE ZeroThing

\* Stream.Thing with cached page l, index i and error e.
StreamThing(l, i, e) ==
    IF e = NoError /\ indexValid(i, l) THEN l.Children[i + 1] ELSE ZeroThing

(* What a call of Next leaves in the Stream and the descriptor and what it    *)
(* returns, one operator for each way out of the function: l, i, e are the    *)
(* Stream's listing, index and err, d is the descriptor, g what Get returned. *)
Outcome(l, i, e, d, r, p) ==
    [listing |-> l, index |-> i, err |-> e, lister |-> d, ret |-> r, path |-> p]

\* ReturnFailed forgetting the error.
ReturnFailedForgets(l, i, e, d) == Outcome(l, i, NoError, d, "false", "failed")

\* if s.err != nil { return false }
ReturnFailed(l, i, e, d) == Outcome(l, i, e, d, "false", "failed")

\* if s.indexValid() { return true }, i being the index advanced.
ReturnCached(l, i, d) == Outcome(l, i, NoError, d, "true", "cached")

\* if s.listing.After == "" && s.index != -1 { return false }
ReturnNoMore(l, i, d) == Outcome(l, i, NoError, d, "false", "no more")

\* ReturnURLError dropping the error of URL().
ReturnURLErrorDropped(l, i, d) == Outcome(l, i, NoError, d, "false", "url error")

\* url, err := s.lister.URL(); if err != nil { s.err = err; return false }
ReturnURLError(l, i, d) ==
    Outcome(l, i, Error("URL failed", "", NoURL), d, "false", "url error")

\* ReturnGetError leaving the index at the end of the page in hand.
ReturnGetErrorKeepsIndex(l, d, g) ==
    Outcome(l, Len(l.Children), g.err, d, "false", "get error")

\* ReturnGetError dropping the page in hand.
ReturnGetErrorDrops(l, d, g) == Outcome(ZeroListing, 0, g.err, d, "false", "get error")

\* s.index, s.err = 0, s.c.Get(...); if s.err != nil { return false }
ReturnGetError(l, d, g) == Outcome(l, 0, g.err, d, "false", "get error")

\* s.listing = *(t.Data.(*Listing)) with t.Data no *Listing: the assertion
\* panics, the index already set to 0.
PanicNotListing(l, d, g) == Outcome(l, 0, NoError, d, "panic", "panic")

\* s.listing = *(t.Data.(*Listing)); Count += len(Children); return s.indexValid()
ReturnFetched(d, g) ==
    Outcome(g.t.Data, 0, NoError, AddCount(d, g.t.Data),
            IF indexValid(0, g.t.Data) THEN "true" ELSE "false", "fetched")

NoObs == [op |-> "none", thing |-> ZeroThing, err |-> NoError]

NoReq == [n |-> 0, after |-> "", total |-> 0]

\* No request was answered.
NoResp == [do |-> "none", status |-> 0, body |-> InvalidJSON]

Leave(o) ==
    /\ listing' = o.listing
    /\ index' = o.index
    /\ err' = o.err
    /\ lister' = o.lister
    /\ ret' = o.ret
    /\ path' = o.path
    /\ panicked' = (o.ret = "panic")

\* What a call of Next leaves behind when it fetches nothing.
Unfetched == UNCHANGED <<gets, urls, fetched, lastPage, lastURL, lastReq, lastResp>>

\* The value of Thing() the caller reads when Next has returned true.
Read ==
    returned' = IF ret' = "true"
                THEN Append(returned, StreamThing(listing', index', err'))
                ELSE returned

\* The fetch of Stream.Next with the index at i, the Lister's URL() failing or
\* not, d being the descriptor with After set, url its URL, resp what the
\* transport answers and g what Get returns.
Fetch(i, urlFails, d, url, resp, g) ==
    /\ gets < MaxGets
    /\ urls' = urls + 1
    /\ IF urlFails
       THEN /\ Leave(ReturnURLError(listing, i, d))
            /\ UNCHANGED <<gets, fetched, lastPage, lastURL, lastReq, lastResp>>
       ELSE /\ lastURL' = url
            /\ lastReq' = [n |-> lastReq.n + 1, after |-> lastPage.After,
                           total |-> Len(fetched)]
            /\ gets' = gets + g.sent
            /\ lastResp' = IF g.sent = 0 THEN NoResp ELSE resp
            /\ IF g.err # NoError
               THEN /\ Leave(ReturnGetError(listing, d, g))
                    /\ UNCHANGED <<fetched, lastPage>>
               ELSE IF g.t.Data.type # "Listing"
               THEN /\ Leave(PanicNotListing(listing, d, g))
                    /\ UNCHANGED <<fetched, lastPage>>
               ELSE /\ Leave(ReturnFetched(d, g))
                    /\ fetched' = fetched \o g.t.Data.Children
                    /\ lastPage' = g.t.Data

\* Stream.Next
Next ==
    /\ ~panicked
    /\ tick' = ~tick
    /\ obs' = NoObs
    /\ UNCHANGED count0
    /\ IF err # NoError
       THEN Leave(ReturnFailed(listing, index, err, lister)) /\ Unfetched
       ELSE \E i \in {Advance(index, listing)} :
                IF indexValid(i, listing)
                THEN Leave(ReturnCached(listing, i, lister)) /\ Unfetched
                ELSE IF NoMorePages(i, listing)
                THEN Leave(ReturnNoMore(listing, i, lister)) /\ Unfetched
                ELSE \E urlFails \in BOOLEAN, resp \in Responses(Len(fetched)) :
                        \E d \in {SetAfter(lister, listing)} :
                            \E url \in {TopPostsURL(d)} :
                                \E g \in {Get(url, resp)} :
                                    Fetch(i, urlFails, d, url, resp, g)
    /\ Read
    /\ UNCHANGED <<thingVars, editedVars, headerVars, configVars, authVars>>

\* Stream.Thing
Thing ==
    /\ ~panicked
    /\ obs' = [op |-> "Thing", thing |-> StreamThing(listing, index, err),
               err |-> NoError]
    /\ UNCHANGED <<listing, index, err, lister, gets, urls, tick, ret, path, panicked,
                   returned, fetched, lastPage, count0, lastURL, lastReq, lastResp>>
    /\ UNCHANGED <<thingVars, editedVars, headerVars, configVars, authVars>>

\* Stream.Error
StreamError ==
    /\ ~panicked
    /\ obs' = [op |-> "Error", thing |-> ZeroThing, err |-> err]
    /\ UNCHANGED <<listing, index, err, lister, gets, urls, tick, ret, path, panicked,
                   returned, fetched, lastPage, count0, lastURL, lastReq, lastResp>>
    /\ UNCHANGED <<thingVars, editedVars, headerVars, configVars, authVars>>

\* The variables of the decoder and the codecs while the Stream runs.
IdleThing ==
    /\ tIn = InvalidJSON /\ tLeaf = InvalidJSON /\ tDepth = 0 /\ tPos = 0 /\ tSibs = 0
    /\ tPrev = ZeroThing /\ tVal = ZeroThing
    /\ tErr = NoError /\ tPc = "idle"
IdleEdited ==
    /\ eIn = <<>> /\ ePrev = ZeroEdited /\ eVal = ZeroEdited /\ eErr = NoError
    /\ eOut = <<>> /\ ePc = "idle"
IdleHeaderSize ==
    /\ hIn = <<>> /\ hVals = <<>> /\ hSep = <<>> /\ hPrev = ZeroHeaderSize /\ hVal = ZeroHeaderSize
    /\ hErr = NoError /\ hOut = <<>> /\ hPc = "idle"

\* The variables of Config persistence while something else runs.
IdleConfig ==
    /\ cPath = "creds" /\ cfg = ZeroConfig /\ file = NoFile /\ cSaved = ZeroConfig
    /\ cLoaded = NilConfig /\ cErr = NoError /\ cPc = "idle"

\* No call of ScriptAuth yet.
NoCall ==
    [n |-> 0, prev |-> ZeroAuthToken, at |-> 0, sent |-> 0,
     resp |-> [do |-> "none", status |-> 0, body |-> NoTokenBody]]

\* The variables of ScriptAuth while something else runs.
IdleAuth ==
    /\ aToken = ZeroAuthToken /\ now = 0 /\ posts = 0 /\ aErr = NoError
    /\ aCall = NoCall

\* Config.Stream(client, lister): a caller's descriptor and a fresh Stream.
IdleStream ==
    /\ listing = ZeroListing /\ index = -1 /\ err = NoError
    /\ gets = 0 /\ urls = 0 /\ tick = FALSE /\ ret = "none" /\ path = "none"
    /\ panicked = FALSE
    /\ returned = <<>> /\ fetched = <<>> /\ lastPage = ZeroListing
    /\ lastURL = NoURL /\ lastReq = NoReq /\ lastResp = NoResp /\ obs = NoObs

\* The descriptors a caller may hand to Config.Stream.
Listers ==
    [After : {"", "z"}, Before : {""}, Count : {0, 1}, Limit : {5}, Show : {""},
     SubReddit : SubReddits, Duration : {"day"}]

\* The Stream while the decoder and the codecs are exercised on their own.
NoStream ==
    /\ IdleStream
    /\ lister = [After |-> "", Before |-> "", Count |-> 0, Limit |-> 5, Show |-> "",
                 SubReddit |-> "programming", Duration |-> "day"]
    /\ count0 = 0

Init ==
    /\ IdleStream
    /\ lister \in Listers
    /\ count0 = lister.Count
    /\ IdleThing /\ IdleEdited /\ IdleHeaderSize /\ IdleConfig /\ IdleAuth

StreamStep == Next \/ Thing \/ StreamError

Spec == Init /\ [][StreamStep]_vars


-----------------------------------------------------------------------------
(* Properties of the Stream, checked under Spec.                            *)

\* The six kinds with a payload.
PayloadKinds == {"Listing", "t1", "t2", "t3", "t4", "t5"}

\* The Thing that decoding the link numbered n gives.
Link(n) ==
    [ID |-> "", Name |-> "", Kind |-> "t3",
     Data |-> [type |-> "Link", Author |-> n, Edited |-> ZeroEdited]]

\* The children of the cached page not yet returned by Next.
Unread ==
    IF index < 0 THEN Len(listing.Children)
    ELSE IF index >= Len(listing.Children) THEN 0
    ELSE Len(listing.Children) - (index + 1)

\* A step is a call of Stream.Next.
NextCalled == tick' # tick

\* The errors Config.Get returns once the request exists: the round trip, the
\* reading of the body, the status, the decoding.
FetchErrors ==
    {"http request failed", "failed to read http response", "http error",
     "failed to parse response"}

C1_State ==
    /\ Len(returned) <= Len(fetched)
    /\ \A k \in 1..Len(returned) : returned[k] = fetched[k] /\ returned[k] = Link(k)
    /\ (err = NoError /\ ~panicked) => Len(returned) = Len(fetched) - Unread
    /\ (ret = "false" /\ err = NoError /\ listing.Children # <<>>)
          => (returned = fetched /\ listing.After = "")

C1_Step ==
    NextCalled /\ err = NoError =>
        /\ (index + 1 < Len(listing.Children)) => ret' = "true"
        /\ (fetched' # fetched) => ret' = "true"
        /\ (listing.Children # <<>> /\ index + 1 >= Len(listing.Children)
              /\ listing.After = "")
              => (ret' = "false" /\ err' = NoError /\ returned' = returned)
        /\ ret' = "true" =>
              /\ Len(returned') = Len(returned) + 1
              /\ returned'[Len(returned')] = StreamThing(listing', index', err')

\* C1: over pages that are not empty, Next returns true once for each entity,
\* Thing() gives the entities in page order and then in-page order with no skip
\* and no duplicate, and the call after the last entity of the page with the
\* empty after token returns false with a nil error.
C1_InOrder == [](C1_State) /\ [][C1_Step]_vars

\* Pages of 5, 5 and 2 entities were read to the end: 12 entities, then false.
C1_Witness ==
    /\ lastReq.n = 3 /\ lastReq.total = 10 /\ Len(listing.Children) = 2
    /\ Len(returned) = 12 /\ ret = "false" /\ err = NoError /\ path = "no more"

C2_Step ==
    err # NoError =>
        /\ err' = err /\ index' = index /\ listing' = listing /\ lister' = lister
        /\ gets' = gets /\ urls' = urls
        /\ NextCalled => ret' = "false"

\* C2: once the error is set, every later Next returns false, makes no
\* transport call, asks the descriptor for no URL and leaves the error, the
\* index, the cached page and the descriptor as they were.
C2_FailedAbsorbing == [][C2_Step]_vars

\* Next was called on a Stream that had failed after its first page.
C2_Witness ==
    /\ path = "failed" /\ ret = "false" /\ err # NoError
    /\ fetched # <<>> /\ index = 0

C3_Cached ==
    NextCalled =>
        /\ gets' - gets \in {0, 1}
        /\ (err = NoError /\ index >= 0 /\ index + 1 < Len(listing.Children))
              => gets' = gets

\* C3 as claimed: one transport call whenever the page is exhausted and the
\* fetch goes on with a URL the descriptor built with no error.
C3_Claimed ==
    [][C3_Cached /\ (NextCalled /\ path' \in {"get error", "fetched", "panic"}
                        => gets' = gets + 1)]_vars

\* C3: a call of Next makes at most one transport call; none on the cached
\* path; exactly one when the page is exhausted, the URL was built and
\* http.NewRequest accepts it; none when http.NewRequest refuses the URL.
C3_OneGet ==
    [][C3_Cached /\ (NextCalled /\ path' \in {"get error", "fetched", "panic"}
                        => gets' = gets + (IF NewRequestFails(lastURL') THEN 0 ELSE 1))]_vars

\* A second page was fetched with one transport call after the first ran out.
C3_Witness == path = "fetched" /\ gets = 2 /\ lastReq.n = 2 /\ Len(returned) > 1

\* C4: the descriptor's Count is its value at creation plus the entities of all
\* pages fetched; the k-th request (k > 1) carries the after token of page k-1
\* and the cumulative count; a first request from Count 0 carries neither.
C4_Count ==
    /\ lister.Count = count0 + Len(fetched)
    /\ lastReq.n > 1 =>
          /\ lastURL.after = lastReq.after /\ "after" \in lastURL.keys
          /\ lastURL.count = count0 + lastReq.total
          /\ ("count" \in lastURL.keys) = (count0 + lastReq.total # 0)
    /\ (lastReq.n = 1 /\ count0 = 0) =>
          (lastURL.keys \cap {"after", "count"} = {} /\ lastURL.after = "")

\* The third URL was built after pages of 5 and 5 entities: count is 10.
C4_Witness ==
    /\ count0 = 0 /\ lastReq.n = 3 /\ lastReq.total = 10
    /\ lastURL.count = 10 /\ lastURL.after = lastReq.after /\ gets = 3

\* C5: when the fetch of a page after the first fails, the entities of the
\* earlier pages have all been returned, the cached page is still the last page
\* fetched, Count was not incremented, the error is set and Next does not
\* return true again.
C5_FailedFetch ==
    /\ (err.msg \in FetchErrors /\ lastReq.n >= 2) =>
          /\ listing = lastPage
          /\ lister.Count = count0 + Len(fetched)
          /\ returned = fetched
    /\ err # NoError => ret = "false"

\* The fetch of the second page failed after a first page of 5 entities.
C5_Witness ==
    /\ err.msg \in FetchErrors /\ lastReq.n = 2 /\ Len(returned) = 5
    /\ path = "get error" /\ Len(listing.Children) = 5


\* A step is a call of Stream.Thing.
ThingCalled == obs'.op = "Thing"

\* The Stream is positioned: no error and 0 <= index < page length.
Positioned == err = NoError /\ index >= 0 /\ index < Len(listing.Children)

\* C11: in every reachable state Thing() returns, changes nothing of the
\* Stream or the descriptor and makes no transport call; it returns the entity
\* at the index of the cached page when the Stream is positioned and the zero
\* Thing in every other state, a failed Stream with a stale page included.
C11_Thing ==
    [][ThingCalled =>
        /\ UNCHANGED <<listing, index, err, lister, gets, urls>>
        /\ obs'.thing = IF Positioned THEN listing.Children[index + 1] ELSE ZeroThing
        /\ (~Positioned => obs'.thing = ZeroThing)]_vars

\* Thing() was called on a failed Stream whose cached page holds entities.
C11_Witness ==
    /\ obs.op = "Thing" /\ obs.thing = ZeroThing
    /\ err # NoError /\ index = 0 /\ Len(listing.Children) > 0

\* The ways out of Next on which a URL-build, transport or decode failure
\* occurs in the call.
FailurePaths == {"url error", "get error"}

C12_State ==
    (ret = "false") =>
        /\ (err # NoError) = (path \in FailurePaths \cup {"failed"})
        /\ (path = "no more" \/ path = "fetched") => err = NoError

C12_Step ==
    NextCalled =>
        /\ (path' \in FailurePaths) => (err = NoError /\ err' # NoError /\ ret' = "false")
        /\ (path' = "failed") => (err # NoError /\ err' = err)
        /\ (path' \notin FailurePaths \cup {"failed"}) => (err = NoError /\ err' = NoError)

\* C12: whenever Next has returned false, Error() is non-nil exactly when a
\* URL-build, transport or decode failure occurred in some call of Next on the
\* Stream (the error is set in the call where the failure occurs and kept by
\* every later call), and it is nil when the pages ran out.
C12_ErrorDistinguishes == [](C12_State) /\ [][C12_Step]_vars

\* Both endings were seen: the error read after a failure.
C12_Witness ==
    /\ obs.op = "Error" /\ obs.err # NoError /\ ret = "false"
    /\ path = "get error" /\ Len(returned) > 0


\* The cached page is exhausted: the index, advanced, is not in it.
Exhausted == ~(index >= 0 /\ index + 1 < Len(listing.Children))

\* C15: when the cached page is exhausted and its after token is not empty,
\* Next attempts the fetch; it returns false only when the page fetched has no
\* entity (the error stays nil) or when the fetch fails (the error is set); it
\* returns true for every entity still in the cached page.
C15_Discovered ==
    [][(NextCalled /\ err = NoError) =>
        /\ ~Exhausted => (ret' = "true" /\ urls' = urls /\ gets' = gets)
        /\ (Exhausted /\ listing.After # "") =>
            /\ urls' = urls + 1
            /\ ret' = "false" =>
                \/ /\ path' = "fetched" /\ fetched' = fetched
                   /\ listing'.Children = <<>> /\ err' = NoError
                \/ /\ path' \in FailurePaths /\ err' # NoError]_vars

\* A page of entities with an after token was read to its end and the page
\* fetched next was empty.
C15_Witness ==
    /\ path = "fetched" /\ ret = "false" /\ err = NoError
    /\ listing.Children = <<>>
    /\ lastReq.n = 2 /\ lastReq.after # "" /\ lastReq.total > 0
    /\ Len(returned) = lastReq.total

\* C16: when a fetch has been attempted (index # -1), the cached page is
\* exhausted and its after token is empty, Next returns false, writes nothing
\* to the descriptor, asks it for no URL, makes no transport call and leaves
\* the error nil; a fresh Stream (index = -1) attempts a fetch although the
\* cached after token is empty.
C16_NoMore ==
    [][(NextCalled /\ err = NoError) =>
        /\ (index # -1 /\ Exhausted /\ listing.After = "") =>
            /\ ret' = "false" /\ err' = NoError
            /\ lister' = lister /\ urls' = urls /\ gets' = gets
            /\ listing' = listing
        /\ index = -1 => (listing.After = "" /\ urls' = urls + 1)]_vars

\* The pages ran out after entities were returned.
C16_Witness ==
    /\ path = "no more" /\ ret = "false" /\ err = NoError
    /\ Len(returned) > 0 /\ returned = fetched /\ gets = 1

\* A request was sent in the step and answered with status 200 and a body.
Answered == gets' # gets /\ lastResp'.do = "ok" /\ lastResp'.status = 200

\* C17: a response that decodes as an entity whose kind is not Listing (a t3
\* link, say) makes Next return false with a non-nil error; Next returns a
\* boolean whatever the response.
C17_WrongShape ==
    [][NextCalled =>
        /\ ret' \in {"true", "false"}
        /\ (Answered /\ lastResp'.body.json = "object"
                /\ lastResp'.body.kind \in PayloadKinds
                /\ lastResp'.body.kind # "Listing")
              => (ret' = "false" /\ err' # NoError)]_vars

\* A body json.Unmarshal cannot decode into a Thing: no JSON object, or an
\* envelope of an unknown kind in it.
Undecodable(b) ==
    \/ b.json # "object"
    \/ b.kind \notin PayloadKinds
    \/ \E i \in 1..Len(b.data.children) : b.data.children[i].kind \notin PayloadKinds

\* C18: each kind of failure ends the Stream in the call of Next where it
\* occurs. An error of URL() sets the error and returns false with no
\* transport call; a failure of the transport or a status other than 200 sets
\* an error that names the URL requested and returns false; a body that does
\* not decode sets the error and returns false; no request is sent twice.
C18_Failures ==
    [][NextCalled =>
        /\ gets' - gets \in {0, 1}
        /\ (urls' # urls /\ lastReq'.n = lastReq.n) =>
              (gets' = gets /\ err' # NoError /\ ret' = "false")
        /\ (gets' # gets /\ (lastResp'.do # "ok" \/ lastResp'.status # 200)) =>
              (err' # NoError /\ err'.url = lastURL' /\ ret' = "false")
        /\ (Answered /\ Undecodable(lastResp'.body)) =>
              (err' # NoError /\ err'.url = lastURL' /\ ret' = "false")
        /\ (err' # NoError) => ret' = "false"]_vars

\* The second request was answered with status 500.
C18_Witness ==
    /\ path = "get error" /\ ret = "false" /\ lastReq.n = 2
    /\ lastResp.do = "ok" /\ lastResp.status = 500
    /\ err.msg = "http error" /\ err.url = lastURL

\* C20 as claimed: once Next has returned false, every later Next returns
\* false and makes no transport call.
C20_Claimed ==
    [][(NextCalled /\ ret = "false") => (ret' = "false" /\ gets' = gets)]_vars

\* C20 (amended): once Next has returned false with the error set or with the
\* after token of the cached page empty, every later Next returns false, asks
\* for no URL and makes no transport call. After a false that came from an
\* empty page with an after token, the next call attempts another fetch.
C20_EndStable ==
    [][(NextCalled /\ ret = "false") =>
        /\ (err # NoError \/ listing.After = "") =>
              (ret' = "false" /\ gets' = gets /\ urls' = urls)
        /\ (err = NoError /\ listing.After # "") =>
              (listing.Children = <<>> /\ urls' = urls + 1)]_vars

\* Next was called again after the pages had run out on an error of URL().
C20_Witness ==
    /\ path = "failed" /\ ret = "false" /\ err.msg = "URL failed"
    /\ gets = 1 /\ Len(returned) > 0


\* Config.Get was called in the step: a URL was built and a GET attempted with
\* it (an attempt that http.NewRequest refuses included).
GetCalled == lastReq'.n = lastReq.n + 1

C21_State ==
    /\ index >= -1
    /\ index <= Len(listing.Children)
    /\ (index = -1) = (lastReq.n = 0)

C21_Step ==
    /\ (index' # index) =>
          /\ NextCalled
          /\ \/ /\ index' = index + 1
                /\ index >= 0 /\ index < Len(listing.Children)
                /\ ~GetCalled
             \/ index' = 0 /\ GetCalled
    /\ GetCalled => index' = 0
    /\ (NextCalled /\ err = NoError /\ index >= 0 /\ index < Len(listing.Children)
          /\ ~GetCalled) => index' = index + 1

FetchAttempted == urls' # urls

C22_Step ==
    /\ lister'.Before = lister.Before
    /\ lister'.Limit = lister.Limit
    /\ lister'.Show = lister.Show
    /\ lister'.SubReddit = lister.SubReddit
    /\ lister'.Duration = lister.Duration
    /\ lister'.After = IF FetchAttempted THEN listing.After ELSE lister.After
    /\ (FetchAttempted /\ index = -1) => lister'.After = ""
    /\ lister'.Count = IF path' = "fetched" /\ FetchAttempted
                       THEN lister.Count + Len(listing'.Children)
                       ELSE lister.Count
    /\ FetchAttempted => NextCalled

\* C22: of the descriptor the Stream writes After and Count only: no call of
\* Next, Thing or Error changes Before, Limit, Show, SubReddit or Duration;
\* a call of Next that attempts a fetch leaves After equal to the after token
\* of the page cached before the call, also when URL() or the GET then fails
\* (the empty string on the first call of a fresh Stream), and no other call
\* changes After; Count changes only when the fetch succeeds.
C22_Descriptor == [][C22_Step]_vars

\* The second fetch failed after the first page was stored: After holds that
\* page's token, Count only what the first page added.
C22_Witness ==
    /\ path \in {"url error", "get error"} /\ urls = 2
    /\ listing.After = "a" /\ lister.After = "a"
    /\ lister.Count = count0 + Len(listing.Children) /\ Len(listing.Children) = 5


-----------------------------------------------------------------------------
(* Thing.UnmarshalJSON on its own: SpecThing.                               *)

\* The kinds of the envelopes decoded: the six of the switch, the "more"
\* placeholder, a kind reddit does not have, and no kind.
Kinds == {"Listing", "t1", "t2", "t3", "t4", "t5", "more", "t9", ""}

EditedSamples == {<<>>, FalseBytes, <<"7">>, NullBytes}

HeaderSizeSamples ==
    {<<>>, NullBytes, EmptyArrayBytes, <<"[", "1", ",", " ", "2", "]">>, <<"[", "1", "]">>}

\* The innermost envelopes: every kind, its plainly typed keys well typed or
\* not, and the keys with a codec where the payload has them.
Leaves ==
    {RawThing(k, [RawData EXCEPT !.typed = ty, !.author = 1, !.edited = e,
                                 !.header_size = h]) :
        k \in Kinds, ty \in BOOLEAN, e \in EditedSamples, h \in HeaderSizeSamples}

\* leaf inside depth Listings, each with pos links before it and sibs after.
RECURSIVE Nest(_, _, _, _)
Nest(depth, leaf, pos, sibs) ==
    IF depth = 0 THEN leaf
    ELSE RawThing("Listing",
            [RawData EXCEPT !.children =
                [i \in 1..pos |-> RawLink(i)]
                    \o <<Nest(depth - 1, leaf, pos, sibs)>>
                    \o [i \in 1..sibs |-> RawLink(pos + i)]])

\* The id and name keys of the outermost envelope: absent or present.
EnvelopeNames == {<<"", "">>, <<"q", "t3_q">>}

\* The envelope b with id and name keys n.
Named(b, n) ==
    IF b.json = "object" THEN [b EXCEPT !.id = n[1], !.name = n[2]] ELSE b

\* Some Thing decoded earlier, used again as the target.
UsedThing ==
    [ID |-> "x", Name |-> "t2_x", Kind |-> "t2", Data |-> [type |-> "Account"]]

InitThing ==
    /\ tLeaf \in Leaves \cup {InvalidJSON}
    /\ tDepth \in 0..MaxDepth
    /\ tPos \in 0..MaxSiblings
    /\ tSibs \in 0..MaxSiblings
    /\ (tDepth = 0 => tPos = 0 /\ tSibs = 0)
    /\ (tLeaf # InvalidJSON =>
            /\ (tLeaf.kind \notin {"t1", "t3"} => tLeaf.data.edited = <<>>)
            /\ (tLeaf.kind # "t5" => tLeaf.data.header_size = <<>>))
    /\ \E n \in EnvelopeNames : tIn = Named(Nest(tDepth, tLeaf, tPos, tSibs), n)
    /\ tPrev \in {ZeroThing, UsedThing}
    /\ tVal = tPrev
    /\ tErr = NoError
    /\ tPc = "ready"
    /\ NoStream /\ IdleEdited /\ IdleHeaderSize /\ IdleConfig /\ IdleAuth

\* A call of Thing.UnmarshalJSON.
UnmarshalJSON ==
    /\ tPc = "ready"
    /\ \E r \in {ThingUnmarshalJSON(tVal, tIn)} :
        /\ tVal' = r.t
        /\ tErr' = r.err
    /\ tPc' = "done"
    /\ UNCHANGED <<tIn, tLeaf, tDepth, tPos, tSibs, tPrev>>
    /\ UNCHANGED <<streamVars, editedVars, headerVars, configVars, authVars>>

ThingStep == UnmarshalJSON

SpecThing == InitThing /\ [][ThingStep]_vars

-----------------------------------------------------------------------------
(* The Edited codec on its own: SpecEdited.                                 *)

DigitSet == {DigitChars[i] : i \in 1..10}

\* The digit strings of 1 to MaxDigits digits.
DigitStrings == UNION {[1..k -> DigitSet] : k \in 1..MaxDigits}

EditedInputs ==
    {FalseBytes, TrueBytes, NullBytes, QuotedBytes, <<>>}
        \cup DigitStrings \cup {<<"-">> \o d : d \in DigitStrings}

\* Some Edited decoded earlier, used again as the target.
UsedEdited == [Unix |-> 5, Edited |-> TRUE]

InitEdited ==
    /\ eIn \in EditedInputs
    /\ ePrev \in {ZeroEdited, UsedEdited}
    /\ eVal = ePrev
    /\ eErr = NoError
    /\ eOut = <<>>
    /\ ePc = "ready"
    /\ NoStream /\ IdleThing /\ IdleHeaderSize /\ IdleConfig /\ IdleAuth

\* A call of Edited.UnmarshalJSON.
EditedUnmarshal ==
    /\ ePc = "ready"
    /\ \E r \in {EditedUnmarshalJSON(eVal, eIn)} :
        /\ eVal' = r.e
        /\ eErr' = r.err
        /\ ePc' = IF r.err = NoError THEN "decoded" ELSE "failed"
    /\ UNCHANGED <<eIn, ePrev, eOut>>
    /\ UNCHANGED <<streamVars, thingVars, headerVars, configVars, authVars>>

\* A call of Edited.MarshalJSON, on a value just decoded or on any other.
EditedMarshal ==
    /\ ePc \in {"ready", "decoded"}
    /\ eOut' = EditedMarshalJSON(eVal)
    /\ ePc' = IF ePc = "decoded" THEN "round trip" ELSE "encoded"
    /\ UNCHANGED <<eIn, ePrev, eVal, eErr>>
    /\ UNCHANGED <<streamVars, thingVars, headerVars, configVars, authVars>>

EditedStep == EditedUnmarshal \/ EditedMarshal

SpecEdited == InitEdited /\ [][EditedStep]_vars

-----------------------------------------------------------------------------
(* The HeaderSize codec on its own: SpecHeaderSize.                         *)

\* The integers written in the arrays.
HeaderInts == {0, 3, 12}

\* The arrays of 0 to MaxArr integers.
HeaderArrays == UNION {[1..k -> HeaderInts] : k \in 0..MaxArr}

\* The ways two elements are separated: as MarshalJSON writes them, and compact.
Separators == {<<",", " ">>, <<",">>}

RECURSIVE RenderElems(_, _)
RenderElems(v, sep) ==
    IF Len(v) = 0 THEN <<>>
    ELSE IF Len(v) = 1 THEN FormatInt(v[1])
    ELSE FormatInt(v[1]) \o sep \o RenderElems(Tail(v), sep)

\* The JSON array of the integers v.
RenderArray(v, sep) == <<"[">> \o RenderElems(v, sep) \o <<"]">>

\* Inputs that are no array of integers.
OtherInputs ==
    {NullBytes, <<>>, <<"[">>, <<"[", "1", ",", "]">>, <<"[", "1", ".", "5", ",", "2", "]">>,
     <<"[", "\"", "1", "\"", ",", "2", "]">>, FalseBytes, <<"3">>}

\* Some HeaderSize decoded earlier, used again as the target.
UsedHeaderSize == [isNil |-> FALSE, Width |-> 640, Height |-> 480]

InitHeaderSize ==
    /\ \/ /\ hVals \in HeaderArrays
          /\ hSep \in Separators
          /\ hIn = RenderArray(hVals, hSep)
       \/ /\ hVals = <<>>
          /\ hSep = <<>>
          /\ hIn \in OtherInputs
    /\ hPrev \in {ZeroHeaderSize, UsedHeaderSize, NilHeaderSize}
    /\ hVal = hPrev
    /\ hErr = NoError
    /\ hOut = <<>>
    /\ hPc = "ready"
    /\ NoStream /\ IdleThing /\ IdleEdited /\ IdleConfig /\ IdleAuth

\* A call of HeaderSize.UnmarshalJSON (encoding/json calls it on an allocated
\* target only).
HeaderSizeUnmarshal ==
    /\ hPc = "ready"
    /\ ~hVal.isNil
    /\ \E r \in {HeaderSizeUnmarshalJSON(hVal, hIn)} :
        /\ hVal' = r.h
        /\ hErr' = r.err
        /\ hPc' = IF r.err = NoError THEN "decoded" ELSE "failed"
    /\ UNCHANGED <<hIn, hVals, hSep, hPrev, hOut>>
    /\ UNCHANGED <<streamVars, thingVars, editedVars, configVars, authVars>>

\* A call of HeaderSize.MarshalJSON, on a value just decoded or on any other.
HeaderSizeMarshal ==
    /\ hPc \in {"ready", "decoded"}
    /\ hOut' = HeaderSizeMarshalJSON(hVal)
    /\ hPc' = IF hPc = "decoded" THEN "round trip" ELSE "encoded"
    /\ UNCHANGED <<hIn, hVals, hSep, hPrev, hVal, hErr>>
    /\ UNCHANGED <<streamVars, thingVars, editedVars, configVars, authVars>>

HeaderSizeStep == HeaderSizeUnmarshal \/ HeaderSizeMarshal

SpecHeaderSize == InitHeaderSize /\ [][HeaderSizeStep]_vars


-----------------------------------------------------------------------------
(* Config.Save and LoadConfig on their own: SpecConfig.                     *)

\* The strings of the credentials: empty, plain, with units that
\* encoding/json escapes, with a byte that is no valid UTF-8.
Strings == {<<>>, <<"a">>, <<"\"", "<">>, <<"a", "xFF">>}

Configs ==
    [Credentials : [Username : Strings, Password : {<<>>, <<"a">>},
                    ClientID : {<<>>, <<"a">>}, ClientSecret : {<<>>, <<"a">>},
                    UserAgent : {<<>>, <<"a">>, <<"xFF">>}],
     AuthToken : [Expires : {0, 0 - 1, 3600}, Token : {<<>>, <<"t">>, <<"xFF", "t">>},
                  Type : {<<>>, <<"b">>}]]

\* A file written by hand, as the one of TestConfigLoadAndSave: no token key.
HandWritten ==
    [exists |-> TRUE, json |-> "object",
     credentials |-> [username |-> <<"\"", "a", "\"">>, password |-> <<"\"", "a", "\"">>,
                      clientID |-> <<"\"", "a", "\"">>,
                      client_secret |-> <<"\"", "a", "\"">>,
                      user_agent |-> <<"\"", "a", "\"">>],
     token |-> [expires |-> <<>>, token |-> <<>>, type |-> <<>>]]

InitConfig ==
    /\ cPath \in {"creds", "~other/creds"}
    /\ cfg \in Configs
    /\ file \in {NoFile, GarbageFile, HandWritten}
    /\ cSaved = ZeroConfig
    /\ cLoaded = NilConfig
    /\ cErr = NoError
    /\ cPc = "ready"
    /\ NoStream /\ IdleThing /\ IdleEdited /\ IdleHeaderSize /\ IdleAuth

\* A call of cfg.Save(cPath).
ConfigSave ==
    /\ cPc = "ready"
    /\ \E writeFails \in BOOLEAN :
        \E r \in {Save(cfg, cPath, file, writeFails)} :
            /\ file' = r.file
            /\ cErr' = r.err
            /\ cSaved' = IF r.err = NoError THEN cfg ELSE cSaved
            /\ cPc' = IF r.err = NoError THEN "saved" ELSE "save failed"
    /\ UNCHANGED <<cPath, cfg, cLoaded>>
    /\ UNCHANGED <<streamVars, thingVars, editedVars, headerVars, authVars>>

\* A call of LoadConfig(cPath): of the file as it was found, or of the file
\* Save wrote.
ConfigLoad ==
    /\ cPc \in {"ready", "saved"}
    /\ \E r \in {LoadConfig(cPath, file)} :
        /\ cLoaded' = r.ptr
        /\ cErr' = r.err
    /\ cPc' = IF cPc = "saved" THEN "round trip" ELSE "loaded"
    /\ UNCHANGED <<cPath, cfg, file, cSaved>>
    /\ UNCHANGED <<streamVars, thingVars, editedVars, headerVars, authVars>>

ConfigStep == ConfigSave \/ ConfigLoad

SpecConfig == InitConfig /\ [][ConfigStep]_vars

-----------------------------------------------------------------------------
(* Config.ScriptAuth on its own: SpecAuth.                                  *)

\* What the transport may answer to a token request.
TokenResponses ==
    {[do |-> "error", status |-> 0, body |-> NoTokenBody],
     [do |-> "read error", status |-> 200, body |-> NoTokenBody],
     [do |-> "ok", status |-> 401, body |-> NoTokenBody],
     [do |-> "ok", status |-> 200, body |-> NoTokenBody]}
        \cup {[do |-> "ok", status |-> 200, body |-> TokenBody(tk, ex, ty, typed)] :
                tk \in {<<>>, <<"n">>}, ex \in {0, 1, 0 - 1}, ty \in {<<>>, <<"b">>},
                typed \in BOOLEAN}

\* The tokens a Config may hold when ScriptAuth is first called: none, one
\* that expires at second 2, one with an expiry and no token.
FirstTokens ==
    {ZeroAuthToken,
     [Expires |-> 2, Token |-> <<"t">>, Type |-> <<"b">>],
     [Expires |-> 2, Token |-> <<>>, Type |-> <<"b">>]}

InitAuth ==
    /\ aToken \in FirstTokens
    /\ now \in {2, 3}
    /\ posts = 0
    /\ aErr = NoError
    /\ aCall = NoCall
    /\ NoStream /\ IdleThing /\ IdleEdited /\ IdleHeaderSize /\ IdleConfig

\* A call of c.ScriptAuth(client).
Authenticate ==
    /\ aCall.n < MaxCalls
    /\ \E resp \in TokenResponses :
        \E r \in {ScriptAuth(aToken, now, resp)} :
            /\ aToken' = r.token
            /\ aErr' = r.err
            /\ posts' = posts + r.sent
            /\ aCall' = [n |-> aCall.n + 1, prev |-> aToken, at |-> now,
                         sent |-> r.sent,
                         resp |-> IF r.sent = 0 THEN NoCall.resp ELSE resp]
    /\ UNCHANGED now
    /\ UNCHANGED <<streamVars, thingVars, editedVars, headerVars, configVars>>

\* Half a second passes.
ClockTick ==
    /\ now < MaxClock
    /\ now' = now + 1
    /\ UNCHANGED <<aToken, posts, aErr, aCall>>
    /\ UNCHANGED <<streamVars, thingVars, editedVars, headerVars, configVars>>

AuthStep == Authenticate \/ ClockTick

SpecAuth == InitAuth /\ [][AuthStep]_vars

-----------------------------------------------------------------------------
(* Properties of the decoder and the codecs.                                *)

\* The payload each of the six kinds stands for.
PayloadOf(kind) ==
    CASE kind = "Listing" -> "Listing"
      [] kind = "t1" -> "Comment"
      [] kind = "t2" -> "Account"
      [] kind = "t3" -> "Link"
      [] kind = "t4" -> "Message"
      [] kind = "t5" -> "SubReddit"

\* The Thing decoded from tLeaf, found depth Listings inside t.
RECURSIVE Inner(_, _)
Inner(t, depth) ==
    IF depth = 0 THEN t ELSE Inner(t.Data.Children[tPos + 1], depth - 1)

\* Each of the depth Listings around it kept every child.
RECURSIVE KeptChildren(_, _)
KeptChildren(t, depth) ==
    \/ depth = 0
    \/ /\ t.Kind = "Listing"
       /\ t.Data.type = "Listing"
       /\ Len(t.Data.Children) = tPos + 1 + tSibs
       /\ \A i \in 1..Len(t.Data.Children) :
            i # tPos + 1 => t.Data.Children[i].Data.type = "Link"
       /\ KeptChildren(t.Data.Children[tPos + 1], depth - 1)

\* The keys of tLeaf are as its payload expects them.
WellFormedLeaf ==
    /\ tLeaf.data.typed
    /\ tLeaf.data.edited \in {<<>>, FalseBytes, <<"7">>}
    /\ tLeaf.data.header_size # <<"[", "1", "]">>

\* C6: Thing.UnmarshalJSON gives each of the six kinds the payload that the
\* kind alone determines, and fails for every other kind, naming it and
\* producing no payload; an envelope of another kind nested in Listings, at
\* any depth, fails the decode of the whole: a decode that succeeds kept every
\* child.
C6_KindMapping ==
    (tPc = "done" /\ tLeaf # InvalidJSON) =>
        /\ tLeaf.kind \notin PayloadKinds =>
            /\ tErr = Error("unsupported kind", tLeaf.kind, NoURL)
            /\ tVal = tPrev
        /\ tErr = NoError =>
            /\ tLeaf.kind \in PayloadKinds
            /\ KeptChildren(tVal, tDepth)
            /\ Inner(tVal, tDepth).Kind = tLeaf.kind
            /\ Inner(tVal, tDepth).Data.type = PayloadOf(tLeaf.kind)
        /\ (tLeaf.kind \in PayloadKinds /\ WellFormedLeaf) => tErr = NoError

C6_Witness ==
    /\ tPc = "done"
    /\ tLeaf # InvalidJSON
    /\ tLeaf.kind = "t9"
    /\ tDepth >= 2 /\ tPos = 1 /\ tSibs = 1
    /\ tPrev = UsedThing
    /\ tErr.kind = "t9"
    /\ tVal = UsedThing

\* C7: an envelope of kind "more" decodes into a More payload, as the
\* envelopes of the six other kinds decode into theirs.
C7_MoreDecodes ==
    (tPc = "done" /\ tLeaf # InvalidJSON /\ tLeaf.kind = "more" /\ WellFormedLeaf) =>
        /\ tErr = NoError
        /\ Inner(tVal, tDepth).Kind = "more"
        /\ Inner(tVal, tDepth).Data.type = "More"

\* A JSON integer with no sign: digits, no leading zero.
BareInteger(s) == Len(s) > 0 /\ AllDigits(s) /\ (Len(s) > 1 => s[1] # "0")

\* C8: for the input false and for every bare integer timestamp,
\* Edited.MarshalJSON of what Edited.UnmarshalJSON decoded is the input, byte
\* for byte.
C8_RoundTrip ==
    (ePc = "round trip" /\ (eIn = FalseBytes \/ BareInteger(eIn))) => eOut = eIn

\* The five credential fields of c are all non-empty.
AllPresent(c) ==
    /\ c.Credentials.Username # <<>> /\ c.Credentials.Password # <<>>
    /\ c.Credentials.ClientID # <<>> /\ c.Credentials.ClientSecret # <<>>
    /\ c.Credentials.UserAgent # <<>>

\* A string with every byte that is no valid UTF-8 replaced by U+FFFD.
Coerced(str) == [k \in 1..Len(str) |-> IF str[k] = "xFF" THEN "uFFFD" ELSE str[k]]

\* The Config c with every string coerced to valid UTF-8.
CoercedConfig(c) ==
    [Credentials |-> [Username |-> Coerced(c.Credentials.Username),
                      Password |-> Coerced(c.Credentials.Password),
                      ClientID |-> Coerced(c.Credentials.ClientID),
                      ClientSecret |-> Coerced(c.Credentials.ClientSecret),
                      UserAgent |-> Coerced(c.Credentials.UserAgent)],
     AuthToken |-> [Expires |-> c.AuthToken.Expires,
                    Token |-> Coerced(c.AuthToken.Token),
                    Type |-> Coerced(c.AuthToken.Type)]]

\* C13 as claimed: LoadConfig after a Save that succeeded returns a Config
\* equal to the one saved whenever its five credential fields are non-empty,
\* and an error and no Config when one of them is empty.
C13_Claimed ==
    (cPc = "round trip") =>
        /\ AllPresent(cSaved) => (cErr = NoError /\ cLoaded = ConfigPtr(cSaved))
        /\ ~AllPresent(cSaved) => (cErr # NoError /\ cLoaded.isNil)

\* C13 (amended): LoadConfig after a Save that succeeded returns, when the
\* five credential fields are non-empty, the Config saved with every byte of
\* its strings that is no valid UTF-8 replaced by U+FFFD: the Config saved
\* itself when its strings are valid UTF-8. It returns an error and no Config
\* when one of the five fields is empty.
C13_RoundTrip ==
    (cPc = "round trip") =>
        /\ AllPresent(cSaved) =>
            /\ cErr = NoError
            /\ cLoaded = ConfigPtr(CoercedConfig(cSaved))
            /\ (CoercedConfig(cSaved) = cSaved) => cLoaded = ConfigPtr(cSaved)
        /\ ~AllPresent(cSaved) => (cErr # NoError /\ cLoaded.isNil)

\* A Config with a quote and a "<" in its user name and a token came back.
C13_Witness ==
    /\ cPc = "round trip" /\ cErr = NoError
    /\ cSaved.Credentials.Username = <<"\"", "<">>
    /\ cSaved.AuthToken = [Expires |-> 0 - 1, Token |-> <<"t">>, Type |-> <<"b">>]
    /\ cLoaded = ConfigPtr(cSaved)

\* The token response is complete and was received with status 200.
Complete(r) ==
    /\ r.do = "ok" /\ r.status = 200
    /\ r.body.json = "object" /\ r.body.typed
    /\ r.body.access_token # <<>> /\ r.body.token_type # <<>>
    /\ r.body.expires_in # 0

\* C14: with a non-empty token whose Expires is strictly after the time of
\* the call, ScriptAuth sends no request and leaves the token as it is;
\* otherwise it sends exactly one token request and, on a complete response
\* received with success, stores the token, its type and Expires = second of
\* the request + expires_in; when the request fails or the response lacks the
\* token, the type or a non-zero expires_in, it returns an error and leaves
\* AuthToken as it was.
C14_ScriptAuth ==
    (aCall.n > 0) =>
        /\ (aCall.prev.Token # <<>> /\ aCall.prev.Expires * 2 > aCall.at) =>
              (aCall.sent = 0 /\ aToken = aCall.prev /\ aErr = NoError)
        /\ ~(aCall.prev.Token # <<>> /\ aCall.prev.Expires * 2 > aCall.at) =>
              /\ aCall.sent = 1
              /\ Complete(aCall.resp) =>
                    /\ aErr = NoError
                    /\ aToken = [Expires |-> (aCall.at \div 2) + aCall.resp.body.expires_in,
                                 Token |-> aCall.resp.body.access_token,
                                 Type |-> aCall.resp.body.token_type]
              /\ ~Complete(aCall.resp) => (aErr # NoError /\ aToken = aCall.prev)
        /\ posts <= aCall.n

\* A token that expired at the very instant of the call was replaced.
C14_Witness ==
    /\ aCall.n > 0 /\ aCall.sent = 1 /\ aErr = NoError
    /\ aCall.prev.Token # <<>> /\ aCall.prev.Expires * 2 = aCall.at
    /\ aToken.Token = <<"n">> /\ aToken.Expires = (aCall.at \div 2) + 1

\* A token that is a number: digits, with a minus sign or none.
NumberToken(s) ==
    /\ s # <<>>
    /\ IF s[1] = "-" THEN Len(s) > 1 /\ AllDigits(Tail(s)) ELSE AllDigits(s)

\* The number a number token writes.
NumberOf(s) == IF s[1] = "-" THEN 0 - DigitsToNat(Tail(s)) ELSE DigitsToNat(s)

\* C19: Edited.UnmarshalJSON decodes the literal false to {Edited: false,
\* Unix: 0}, a token that parses as a number to {Edited: true, Unix: the
\* number}, and returns an error for every other token (true, null, a quoted
\* string), leaving the target as it was.
C19_EditedDecode ==
    (ePc \in {"decoded", "failed"}) =>
        /\ eIn = FalseBytes =>
              (eErr = NoError /\ eVal = [Unix |-> 0, Edited |-> FALSE])
        /\ NumberToken(eIn) =>
              (eErr = NoError /\ eVal = [Unix |-> NumberOf(eIn), Edited |-> TRUE])
        /\ (eIn # FalseBytes /\ ~NumberToken(eIn)) =>
              (eErr # NoError /\ eVal = ePrev /\ ePc = "failed")
        /\ (ePc = "failed") = (eErr # NoError)

\* The literal true was refused and the target kept its value.
C19_Witness ==
    /\ ePc = "failed" /\ eIn = TrueBytes /\ eErr # NoError
    /\ ePrev = UsedEdited /\ eVal = UsedEdited

\* C9: HeaderSize.MarshalJSON of what HeaderSize.UnmarshalJSON decoded is the
\* JSON decoded, for the empty array and for an array of 2 integers: the same
\* array, whatever separates its elements.
C9_RoundTrip ==
    (hPc = "round trip" /\ hSep # <<>> /\ Len(hVals) \in {0, 2}) =>
        \E sep \in Separators : hOut = RenderArray(hVals, sep)

\* The JSON array as HeaderSize.MarshalJSON lays it out: "[w, h]".
PairBytes(w, h) == <<"[">> \o FormatInt(w) \o <<",", " ">> \o FormatInt(h) \o <<"]">>

\* C9 (amended): HeaderSize.MarshalJSON of what HeaderSize.UnmarshalJSON
\* decoded from an array of 2 integers is that array written "[w, h]": the
\* input byte for byte when the input is laid out so, the same two integers
\* otherwise. The empty array does not come back: it decodes with no error,
\* leaves the pair as the target held it, and is written as that pair, an
\* array of 2 integers.
C9_PairRoundTrip ==
    (hPc = "round trip" /\ hSep # <<>>) =>
        /\ Len(hVals) \in {0, 2}
        /\ Len(hVals) = 2 =>
            /\ hOut = PairBytes(hVals[1], hVals[2])
            /\ (hSep = <<",", " ">> => hOut = hIn)
        /\ Len(hVals) = 0 =>
            /\ hOut = PairBytes(hPrev.Width, hPrev.Height)
            /\ hOut # hIn

C9_Witness ==
    /\ hPc = "round trip"
    /\ hVals = <<3, 12>>
    /\ hSep = <<",", " ">>
    /\ hPrev = UsedHeaderSize
    /\ hOut = hIn

\* C10: HeaderSize.UnmarshalJSON succeeds on the empty array with the pair
\* (0, 0), succeeds on an array of 2 integers with width the first and height
\* the second, and fails on an array of any other length.
C10_Decode ==
    (hPc \in {"decoded", "failed"} /\ hSep # <<>>) =>
        /\ Len(hVals) = 0 => (hErr = NoError /\ hVal.Width = 0 /\ hVal.Height = 0)
        /\ Len(hVals) = 2 =>
            (hErr = NoError /\ hVal.Width = hVals[1] /\ hVal.Height = hVals[2])
        /\ Len(hVals) \notin {0, 2} => (hErr # NoError /\ hVal = hPrev)



\* C23: Thing.UnmarshalJSON is all-or-nothing on its target: when it returns
\* an error (an envelope that is no JSON object of the expected shape, a kind
\* outside the six, or a payload that does not decode) the target's ID, Name,
\* Kind and Data are what they were before the call; when it returns nil the
\* ID, Name and Kind are the envelope's and Data is the payload of the type
\* the envelope's kind selects.
C23_AllOrNothing ==
    tPc = "done" =>
        /\ tErr # NoError => tVal = tPrev
        /\ tErr = NoError =>
            /\ tVal.ID = tIn.id
            /\ tVal.Name = tIn.name
            /\ tVal.Kind = tIn.kind
            /\ tIn.kind \in PayloadKinds
            /\ tVal.Data.type = PayloadOf(tIn.kind)
        /\ tIn = InvalidJSON => tErr # NoError
        /\ (tIn # InvalidJSON /\ tIn.kind \notin PayloadKinds) => tErr # NoError
        /\ (tLeaf # InvalidJSON /\ ~WellFormedLeaf) => tErr # NoError

\* A named envelope of a supported kind whose payload does not decode, handed
\* to a Thing decoded earlier: the call failed and the Thing is as it was.
C23_Witness ==
    /\ tPc = "done"
    /\ tIn # InvalidJSON /\ tIn.id = "q" /\ tIn.kind = "t5"
    /\ tLeaf.data.typed /\ tLeaf.data.header_size = <<"[", "1", "]">>
    /\ tErr # NoError
    /\ tPrev = UsedThing /\ tVal = UsedThing

=============================================================================
